---- MODULE Spec2Model ----
(***************************************************************************)
(* yolo-cls: the closeable thread-safe queue (tsqueue.cpp) and the         *)
(* pipeline built on it (yolo-cls.cpp, utils.cpp).                         *)
(*                                                                         *)
(* tsqueue is modelled at the granularity of its synchronisation: taking   *)
(* the mutex, the critical section (which ends with the release of the     *)
(* lock_guard / unique_lock), the condition-variable wait, the notify.     *)
(* A std::optional<std::string> is a sequence of length 0 (std::nullopt)   *)
(* or 1 (a value).                                                         *)
(***************************************************************************)
EXTENDS Integers, Sequences, FiniteSets, TLC

\* ---------------------------------------------------------------- bounds
MaxCalls     == 4   \* push(), close() and after-end-of-stream pop() calls the clients make per run
MaxSpurious  == 1   \* spurious wakeups of the condition variable per run
\* the same two limits in the runs checked for progress
LiveCalls    == 2
LiveSpurious == 1
\* the pipeline runs
\* string_unit_to_numeric: uint64_t and the factor 1024 are scaled down so
\* that the products stay small; as in the source the largest multiplier,
\* Kilo^4, fits in UintBits bits
UintBits     == 10  \* width of uint64_t / unsigned long long
Kilo         == 4   \* the factor between successive units
MaxDigits    == 4   \* digits in the numeric part of an argument
\* yolo::predict
MaxNames     == 2   \* lines of the class names file
MaxClasses   == 3   \* outputs of the model
MaxTopK      == 3   \* the -k option
MaxInput     == 2   \* image files on the command line, or lines on standard input
PipeSpurious == 1   \* spurious wakeups per pipeline run
\* the pipeline runs checked for progress: image files on the command line,
\* lines on standard input, spurious wakeups
LiveInput    == 2
LiveLines    == 1
LivePipeSpurious == 1

\* --------------------------------------------------------------- threads
Producers == {"p1", "p2"}
Consumers == {"c1", "c2"}
Closers   == {"k1"}
Clients   == Producers \cup Consumers \cup Closers

\* the threads of the pipeline: main, output_thread, worker_threads, input_thread
WorkerSeq   == <<"w1", "w2">>
Workers     == {WorkerSeq[i] : i \in DOMAIN WorkerSeq}
PipeThreads == {"main", "out", "inp"} \cup Workers
Threads     == Clients \cup PipeThreads

Queues    == {"tsq_in", "tsq_out"}
TQ        == "tsq_in"     \* the queue the client threads share

NoThread  == "nobody"
nullopt   == << >>
NoCall    == [op |-> "none", q |-> "none", at |-> "none", arg |-> << >>]

VARIABLES
    queue,      \* tsqueue::queue, per queue: the std::queue<std::string>
    done,       \* tsqueue::done,  per queue
    mutex,      \* tsqueue::mutex, per queue: the thread holding it
    waiting,    \* tsqueue::cv,    per queue: the threads parked in cv.wait
    call,       \* per thread: the tsqueue method it is executing, and where
    rv,         \* per thread: the value its last pop() returned
    pc,         \* per thread: position in the caller's code
    cnt,        \* per thread: calls made so far (client loop counters)
    spurious,   \* spurious wakeups so far
    lim,        \* the limits of this run: [calls, spur]
    cfg,        \* the pipeline's inputs: the parsed configuration and the environment
    inbuf,      \* the lines not yet read from standard input
    out,        \* the lines written to standard output
    err,        \* the messages written to standard error
    pushlog,    \* history, per queue: <<thread, item>> in the order push() appended
    poplog,     \* history, per queue: <<thread, optional>> in the order pop() decided
    closedAt,   \* history, per queue: Len(pushlog) when done was first set, -1 before
    conv,       \* string_unit_to_numeric: its argument, locals, and how it ended
    post        \* yolo::predict, post-processing: class_names, the scores, the loop

vars == <<queue, done, mutex, waiting, call, rv, pc, cnt, spurious, lim,
          cfg, inbuf, out, err,
          pushlog, poplog, closedAt, conv, post>>

qvars == <<queue, done, mutex, waiting>>
iovars == <<cfg, inbuf, out, err>>
hvars == <<pushlog, poplog, closedAt, lim, conv, post, iovars>>

\* ------------------------------------------------------- tsqueue::push
Begin(t, o, qq, a) ==
    call' = [call EXCEPT ![t] = [op |-> o, q |-> qq, at |-> "lock", arg |-> a]]

At(t, o, w) == call[t].op = o /\ call[t].at = w

Goto(t, w) == call' = [call EXCEPT ![t].at = w]

\* std::lock_guard<std::mutex> lock(mutex);
PushLock(t) ==
    /\ At(t, "push", "lock")
    /\ mutex[call[t].q] = NoThread
    /\ mutex' = [mutex EXCEPT ![call[t].q] = t]
    /\ Goto(t, "cs")
    /\ UNCHANGED <<queue, done, waiting, rv, pc, cnt, spurious, hvars>>

\* faulty variant: pushes at the front
PushBackWrong(s, v) == <<v>> \o s

\* queue.push(value): std::queue appends at the back
PushBack(s, v) == Append(s, v)

\* faulty variant: a push re-opens a closed queue
PushCSReopen(t) ==
    /\ At(t, "push", "cs")
    /\ LET q == call[t].q IN
        /\ queue' = [queue EXCEPT ![q] = PushBack(@, call[t].arg)]
        /\ pushlog' = [pushlog EXCEPT ![q] = Append(@, <<t, call[t].arg>>)]
        /\ mutex' = [mutex EXCEPT ![q] = NoThread]
        /\ done' = [done EXCEPT ![q] = FALSE]
    /\ Goto(t, "notify")
    /\ UNCHANGED <<waiting, rv, pc, cnt, spurious, lim, conv, post, iovars, poplog, closedAt>>

\* queue.push(value); } -- the lock_guard is released at the closing brace
PushCS(t) ==
    /\ At(t, "push", "cs")
    /\ LET q == call[t].q IN
        /\ queue' = [queue EXCEPT ![q] = PushBack(@, call[t].arg)]
        /\ pushlog' = [pushlog EXCEPT ![q] = Append(@, <<t, call[t].arg>>)]
        /\ mutex' = [mutex EXCEPT ![q] = NoThread]
    /\ Goto(t, "notify")
    /\ UNCHANGED <<done, waiting, rv, pc, cnt, spurious, lim, conv, post, iovars, poplog, closedAt>>

\* faulty variant: push() without the notify
NotifyNone(w) == {w}

\* cv.notify_one(): the possible waiter sets afterwards (one waiter leaves, if any)
NotifyOne(w) == IF w = {} THEN {w} ELSE {w \ {x} : x \in w}

\* cv.notify_one();
PushNotify(t) ==
    /\ At(t, "push", "notify")
    /\ \E w \in NotifyOne(waiting[call[t].q]) :
          waiting' = [waiting EXCEPT ![call[t].q] = w]
    /\ Goto(t, "ret")
    /\ UNCHANGED <<queue, done, mutex, rv, pc, cnt, spurious, hvars>>

\* -------------------------------------------------------- tsqueue::pop
\* faulty variant: pop() enters without waiting for the mutex
PopLockUnguarded(t) ==
    /\ At(t, "pop", "lock")
    /\ mutex' = [mutex EXCEPT ![call[t].q] = t]
    /\ Goto(t, "pred")
    /\ UNCHANGED <<queue, done, waiting, rv, pc, cnt, spurious, hvars>>

\* std::unique_lock<std::mutex> lock(mutex);
PopLock(t) ==
    /\ At(t, "pop", "lock")
    /\ mutex[call[t].q] = NoThread
    /\ mutex' = [mutex EXCEPT ![call[t].q] = t]
    /\ Goto(t, "pred")
    /\ UNCHANGED <<queue, done, waiting, rv, pc, cnt, spurious, hvars>>

\* faulty variant: pop() does not wait
WaitPredNoWait(q) == TRUE

\* faulty variant: the predicate ignores done
WaitPredNoDone(q) == queue[q] # << >>

\* [this] { return !queue.empty() || done; }
WaitPred(q) == queue[q] # << >> \/ done[q]

\* cv.wait(lock, pred): while(!pred()) wait(lock); the wait releases the
\* mutex and parks the thread in one atomic step
PopWait(t) ==
    /\ At(t, "pop", "pred")
    /\ LET q == call[t].q IN
         IF WaitPred(q)
         THEN /\ Goto(t, "cs")
              /\ UNCHANGED <<mutex, waiting>>
         ELSE /\ Goto(t, "parked")
              /\ mutex' = [mutex EXCEPT ![q] = NoThread]
              /\ waiting' = [waiting EXCEPT ![q] = @ \cup {t}]
    /\ UNCHANGED <<queue, done, rv, pc, cnt, spurious, hvars>>

\* faulty variant: a woken waiter proceeds without evaluating the predicate
PopRelockNoRecheck(t) ==
    /\ At(t, "pop", "parked")
    /\ t \notin waiting[call[t].q]
    /\ mutex[call[t].q] = NoThread
    /\ mutex' = [mutex EXCEPT ![call[t].q] = t]
    /\ Goto(t, "cs")
    /\ UNCHANGED <<queue, done, waiting, rv, pc, cnt, spurious, hvars>>

\* a notified (or spuriously woken) waiter re-acquires the mutex inside
\* cv.wait and evaluates the predicate again
PopRelock(t) ==
    /\ At(t, "pop", "parked")
    /\ t \notin waiting[call[t].q]
    /\ mutex[call[t].q] = NoThread
    /\ mutex' = [mutex EXCEPT ![call[t].q] = t]
    /\ Goto(t, "pred")
    /\ UNCHANGED <<queue, done, waiting, rv, pc, cnt, spurious, hvars>>

\* std::condition_variable::wait may wake without a notification
SpuriousWake(t) ==
    /\ At(t, "pop", "parked")
    /\ t \in waiting[call[t].q]
    /\ spurious < lim.spur
    /\ spurious' = spurious + 1
    /\ waiting' = [waiting EXCEPT ![call[t].q] = @ \ {t}]
    /\ UNCHANGED <<queue, done, mutex, call, rv, pc, cnt, hvars>>

\* faulty variant: reads the back of the queue
FrontWrong(s) == s[Len(s)]

\* queue.front()
Front(s) == Head(s)

\* faulty variant: removes the back of the queue
PopFrontWrong(s) == SubSeq(s, 1, Len(s) - 1)

\* queue.pop()
PopFront(s) == Tail(s)

\* if(queue.empty()) return std::nullopt;
\* value = std::move(queue.front()); queue.pop(); return value;
\* the unique_lock is released on return
PopCS(t) ==
    /\ At(t, "pop", "cs")
    /\ LET q == call[t].q IN
        /\ IF queue[q] = << >>
           THEN /\ rv' = [rv EXCEPT ![t] = nullopt]
                /\ queue' = queue
           ELSE /\ rv' = [rv EXCEPT ![t] = <<Front(queue[q])>>]
                /\ queue' = [queue EXCEPT ![q] = PopFront(@)]
        /\ poplog' = [poplog EXCEPT ![q] = Append(@, <<t, rv'[t]>>)]
        /\ mutex' = [mutex EXCEPT ![q] = NoThread]
    /\ Goto(t, "ret")
    /\ UNCHANGED <<done, waiting, pc, cnt, spurious, lim, conv, post, iovars, pushlog, closedAt>>

\* ------------------------------------------------------ tsqueue::close
\* std::lock_guard<std::mutex> lock(mutex);
CloseLock(t) ==
    /\ At(t, "close", "lock")
    /\ mutex[call[t].q] = NoThread
    /\ mutex' = [mutex EXCEPT ![call[t].q] = t]
    /\ Goto(t, "cs")
    /\ UNCHANGED <<queue, done, waiting, rv, pc, cnt, spurious, hvars>>

\* faulty variant: close() drops the queued items
CloseCSClear(t) ==
    /\ At(t, "close", "cs")
    /\ LET q == call[t].q IN
        /\ done' = [done EXCEPT ![q] = TRUE]
        /\ queue' = [queue EXCEPT ![q] = << >>]
        /\ closedAt' = [closedAt EXCEPT ![q] = IF done[q] THEN @ ELSE Len(pushlog[q])]
        /\ mutex' = [mutex EXCEPT ![q] = NoThread]
    /\ Goto(t, "notify")
    /\ UNCHANGED <<waiting, rv, pc, cnt, spurious, lim, conv, post, iovars, pushlog, poplog>>

\* done = true; } -- the lock_guard is released at the closing brace
CloseCS(t) ==
    /\ At(t, "close", "cs")
    /\ LET q == call[t].q IN
        /\ done' = [done EXCEPT ![q] = TRUE]
        /\ closedAt' = [closedAt EXCEPT ![q] = IF done[q] THEN @ ELSE Len(pushlog[q])]
        /\ mutex' = [mutex EXCEPT ![q] = NoThread]
    /\ Goto(t, "notify")
    /\ UNCHANGED <<queue, waiting, rv, pc, cnt, spurious, lim, conv, post, iovars, pushlog, poplog>>

\* faulty variant: close() wakes one waiter only
NotifyAllOne(w) == IF w = {} THEN {w} ELSE {w \ {x} : x \in w}

\* cv.notify_all(): every waiter leaves
NotifyAll(w) == {{}}

\* cv.notify_all();
CloseNotify(t) ==
    /\ At(t, "close", "notify")
    /\ \E w \in NotifyAll(waiting[call[t].q]) :
          waiting' = [waiting EXCEPT ![call[t].q] = w]
    /\ Goto(t, "ret")
    /\ UNCHANGED <<queue, done, mutex, rv, pc, cnt, spurious, hvars>>

\* ------------------------------------------------- client threads of one queue
\* the thread is not inside a tsqueue method
Idle(t) == call[t].at \in {"none", "ret"}

Total(S) == LET RECURSIVE Sum(_)
                Sum(T) == IF T = {} THEN 0
                          ELSE LET x == CHOOSE y \in T : TRUE IN cnt[x] + Sum(T \ {x})
            IN Sum(S)

\* a producer pushes its items <<p, 1>>, <<p, 2>>, ... one after the other
ProducerPush(p) ==
    /\ pc[p] = "run" /\ Idle(p)
    /\ Total(Clients) < lim.calls
    /\ cnt' = [cnt EXCEPT ![p] = @ + 1]
    /\ Begin(p, "push", TQ, <<p, cnt[p] + 1>>)
    /\ UNCHANGED <<qvars, rv, pc, spurious, hvars>>

\* a consumer runs while(auto value = q.pop()) { }
ConsumerPop(c) ==
    /\ pc[c] = "run"
    /\ call[c] = NoCall \/ (call[c].at = "ret" /\ rv[c] # nullopt)
    /\ Begin(c, "pop", TQ, << >>)
    /\ UNCHANGED <<qvars, rv, pc, cnt, spurious, hvars>>

\* once its loop has ended, a consumer may call pop() again
ConsumerExtraPop(c) ==
    /\ pc[c] \in {"run", "after"}
    /\ call[c].at = "ret" /\ (pc[c] = "run" => rv[c] = nullopt)
    /\ Total(Clients) < lim.calls
    /\ cnt' = [cnt EXCEPT ![c] = @ + 1]
    /\ pc' = [pc EXCEPT ![c] = "after"]
    /\ Begin(c, "pop", TQ, << >>)
    /\ UNCHANGED <<qvars, rv, spurious, hvars>>

\* a closer calls close(), any number of times
CloserClose(k) ==
    /\ pc[k] = "run" /\ Idle(k)
    /\ Total(Clients) < lim.calls
    /\ cnt' = [cnt EXCEPT ![k] = @ + 1]
    /\ Begin(k, "close", TQ, << >>)
    /\ UNCHANGED <<qvars, rv, pc, spurious, hvars>>

\* the sets of client threads that share the queue in one run
Scenarios == {{"p1", "p2", "c1", "k1"}, {"p1", "c1", "c2", "k1"}}

\* a freshly constructed tsqueue: empty, done = false, nobody waiting
\* no call of string_unit_to_numeric
NoConv == [at |-> "none", unit |-> << >>, digits |-> << >>, suffix |-> << >>,
           s |-> << >>, number_str |-> << >>, unit_str |-> << >>,
           number |-> 0, multiplier |-> 1, result |-> 0, thrown |-> "none"]

FreshQueues ==
    /\ queue = [q \in Queues |-> << >>]
    /\ done = [q \in Queues |-> FALSE]
    /\ mutex = [q \in Queues |-> NoThread]
    /\ waiting = [q \in Queues |-> {}]
    /\ call = [t \in Threads |-> NoCall]
    /\ rv = [t \in Threads |-> nullopt]
    /\ cnt = [t \in Threads |-> 0]
    /\ spurious = 0
    /\ pushlog = [q \in Queues |-> << >>]
    /\ poplog = [q \in Queues |-> << >>]
    /\ closedAt = [q \in Queues |-> -1]

\* no call of yolo::predict
NoPost == [at |-> "none", class_names |-> << >>, scores |-> << >>, top_k |-> 0,
           indexed_scores |-> << >>, i |-> 0, top_predictions |-> << >>,
           out_of_bounds |-> FALSE]

Fresh == FreshQueues /\ conv = NoConv /\ post = NoPost

NoConfig == [parse_ok |-> TRUE, init_ok |-> TRUE, threads |-> 0, tty |-> TRUE,
             disable_extension_check |-> FALSE, image_files |-> << >>,
             lines |-> << >>, eof |-> TRUE]

NoPipeline == cfg = NoConfig /\ inbuf = << >> /\ out = << >> /\ err = << >>

Init ==
    /\ Fresh /\ NoPipeline
    /\ lim = [calls |-> MaxCalls, spur |-> MaxSpurious]
    /\ \E A \in Scenarios : pc = [t \in Threads |-> IF t \in A THEN "run" ELSE "off"]

QueueNext ==
    \/ \E t \in Threads : PushLock(t)
    \/ \E t \in Threads : PushCS(t)
    \/ \E t \in Threads : PushNotify(t)
    \/ \E t \in Threads : PopLock(t)
    \/ \E t \in Threads : PopWait(t)
    \/ \E t \in Threads : PopRelock(t)
    \/ \E t \in Threads : SpuriousWake(t)
    \/ \E t \in Threads : PopCS(t)
    \/ \E t \in Threads : CloseLock(t)
    \/ \E t \in Threads : CloseCS(t)
    \/ \E t \in Threads : CloseNotify(t)

Next ==
    \/ QueueNext
    \/ \E p \in Producers : ProducerPush(p)
    \/ \E c \in Consumers : ConsumerPop(c)
    \/ \E c \in Consumers : ConsumerExtraPop(c)
    \/ \E k \in Closers : CloserClose(k)

Spec == Init /\ [][Next]_vars

\* ---------------------------------------------------------------- pipeline
\* A path is <<extension, position in the input>>; the ResultRecord a worker
\* formats for it is <<"result", position>>.
Extensions == {"png", "txt"}

\* one supported extension and one unsupported stand for the whitelist and the rest
SupportedExtensions == {"png"}

\* is_supported_image(extension)
is_supported_image(ext) == ext \in SupportedExtensions

\* std::string result = path; ... the formatted line of a classified image
FormatResult(path) == <<"result", path[2]>>

\* the inputs of a run: n paths, each with some extension
Inputs == UNION {[1..n -> Extensions] : n \in 0..MaxInput}

\* where no extension is looked at (image files on the command line, or the
\* extension check disabled) the inputs alternate supported and unsupported
Alternating == {[i \in 1..n |-> IF i % 2 = 1 THEN "png" ELSE "txt"] : n \in 0..MaxInput}

PathsOf(exts) == [i \in DOMAIN exts |-> <<exts[i], i>>]

\* faulty variant: join() does not wait
ThreadDoneEarly(t) == TRUE

\* std::thread::join() returns once the thread function has returned
ThreadDone(t) == pc[t] = "done"

\* config = parse_arguments(argc, argv); on an exception: report, EXIT_FAILURE
MainParse ==
    /\ pc["main"] = "parse"
    /\ IF cfg.parse_ok
       THEN pc' = [pc EXCEPT !["main"] = "init"] /\ err' = err
       ELSE /\ pc' = [pc EXCEPT !["main"] = "exit_failure"]
            /\ err' = Append(err, <<"yolo-cls", "parse_arguments">>)
    /\ UNCHANGED <<qvars, call, rv, cnt, spurious, pushlog, poplog, closedAt, lim, conv, post, cfg, inbuf, out>>

\* faulty variant: a failed initialisation is reported and main goes on
MainInitClassifierGoOn ==
    /\ pc["main"] = "init"
    /\ pc' = [pc EXCEPT !["main"] = "start_out"]
    /\ err' = IF cfg.init_ok THEN err ELSE Append(err, <<"yolo-cls", "yolo">>)
    /\ UNCHANGED <<qvars, call, rv, cnt, spurious, pushlog, poplog, closedAt, lim, conv, post, cfg, inbuf, out>>

\* classifier = yolo(...); on an exception: report, EXIT_FAILURE
MainInitClassifier ==
    /\ pc["main"] = "init"
    /\ IF cfg.init_ok
       THEN pc' = [pc EXCEPT !["main"] = "start_out"] /\ err' = err
       ELSE /\ pc' = [pc EXCEPT !["main"] = "exit_failure"]
            /\ err' = Append(err, <<"yolo-cls", "yolo">>)
    /\ UNCHANGED <<qvars, call, rv, cnt, spurious, pushlog, poplog, closedAt, lim, conv, post, cfg, inbuf, out>>

\* tsqueue tsq_in; tsqueue tsq_out; std::thread output_thread(thread_print_tsq, tsq_out);
MainStartOutput ==
    /\ pc["main"] = "start_out"
    /\ pc' = [pc EXCEPT !["main"] = "start_workers", !["out"] = "run"]
    /\ cnt' = [cnt EXCEPT !["main"] = 0]
    /\ UNCHANGED <<qvars, call, rv, spurious, hvars>>

\* for(int i = 0; i < config.threads; ++i) worker_threads.emplace_back(thread_classify, ...);
MainStartWorker ==
    /\ pc["main"] = "start_workers"
    /\ cnt["main"] < cfg.threads
    /\ pc' = [pc EXCEPT ![WorkerSeq[cnt["main"] + 1]] = "run"]
    /\ cnt' = [cnt EXCEPT !["main"] = @ + 1]
    /\ UNCHANGED <<qvars, call, rv, spurious, hvars>>

\* if(isatty(STDIN_FILENO)) { push the image files } else { std::thread input_thread(...) }
MainProduce ==
    /\ pc["main"] = "start_workers"
    /\ cnt["main"] >= cfg.threads
    /\ IF cfg.tty
       THEN pc' = [pc EXCEPT !["main"] = "push_files"]
       ELSE pc' = [pc EXCEPT !["main"] = "join_input", !["inp"] = "run"]
    /\ cnt' = [cnt EXCEPT !["main"] = 0]
    /\ UNCHANGED <<qvars, call, rv, spurious, hvars>>

\* faulty variant: files with an unsupported extension are skipped
MainPushFileFiltered ==
    /\ pc["main"] = "push_files" /\ Idle("main")
    /\ cnt["main"] < Len(cfg.image_files)
    /\ IF is_supported_image(cfg.image_files[cnt["main"] + 1][1])
       THEN Begin("main", "push", "tsq_in", cfg.image_files[cnt["main"] + 1])
       ELSE call' = [call EXCEPT !["main"] = NoCall]
    /\ cnt' = [cnt EXCEPT !["main"] = @ + 1]
    /\ UNCHANGED <<qvars, rv, pc, spurious, hvars>>

\* for(auto const &i : config.image_files) tsq_in.push(i);
MainPushFile ==
    /\ pc["main"] = "push_files" /\ Idle("main")
    /\ cnt["main"] < Len(cfg.image_files)
    /\ Begin("main", "push", "tsq_in", cfg.image_files[cnt["main"] + 1])
    /\ cnt' = [cnt EXCEPT !["main"] = @ + 1]
    /\ UNCHANGED <<qvars, rv, pc, spurious, hvars>>

\* tsq_in.close();
MainCloseInput ==
    /\ pc["main"] = "push_files" /\ Idle("main")
    /\ cnt["main"] >= Len(cfg.image_files)
    /\ Begin("main", "close", "tsq_in", << >>)
    /\ pc' = [pc EXCEPT !["main"] = "closing_in"]
    /\ UNCHANGED <<qvars, rv, cnt, spurious, hvars>>

\* input_thread.join(); or, in the other branch, the return of tsq_in.close()
MainProduced ==
    /\ \/ pc["main"] = "join_input" /\ ThreadDone("inp")
       \/ pc["main"] = "closing_in" /\ call["main"].at = "ret"
    /\ pc' = [pc EXCEPT !["main"] = "join_workers"]
    /\ cnt' = [cnt EXCEPT !["main"] = 0]
    /\ call' = [call EXCEPT !["main"] = NoCall]
    /\ UNCHANGED <<qvars, rv, spurious, hvars>>

\* faulty variant: main does not wait for the worker it joins
MainJoinWorkerNoWait ==
    /\ pc["main"] = "join_workers"
    /\ cnt["main"] < cfg.threads
    /\ cnt' = [cnt EXCEPT !["main"] = @ + 1]
    /\ UNCHANGED <<qvars, call, rv, pc, spurious, hvars>>

\* for(std::thread &t : worker_threads) t.join();
MainJoinWorker ==
    /\ pc["main"] = "join_workers"
    /\ cnt["main"] < cfg.threads
    /\ ThreadDone(WorkerSeq[cnt["main"] + 1])
    /\ cnt' = [cnt EXCEPT !["main"] = @ + 1]
    /\ UNCHANGED <<qvars, call, rv, pc, spurious, hvars>>

\* faulty variant: main goes on to join the output thread without closing tsq_out
MainCloseOutputSkip ==
    /\ pc["main"] = "join_workers"
    /\ cnt["main"] >= cfg.threads
    /\ call' = [call EXCEPT !["main"] =
                   [op |-> "close", q |-> "tsq_out", at |-> "ret", arg |-> << >>]]
    /\ pc' = [pc EXCEPT !["main"] = "closing_out"]
    /\ UNCHANGED <<qvars, rv, cnt, spurious, hvars>>

\* tsq_out.close();
MainCloseOutput ==
    /\ pc["main"] = "join_workers"
    /\ cnt["main"] >= cfg.threads
    /\ Begin("main", "close", "tsq_out", << >>)
    /\ pc' = [pc EXCEPT !["main"] = "closing_out"]
    /\ UNCHANGED <<qvars, rv, cnt, spurious, hvars>>

\* faulty variant: main returns without joining the output thread
MainJoinOutputNoWait ==
    /\ pc["main"] = "closing_out" /\ call["main"].at = "ret"
    /\ pc' = [pc EXCEPT !["main"] = "exit_success"]
    /\ UNCHANGED <<qvars, call, rv, cnt, spurious, hvars>>

\* output_thread.join(); return EXIT_SUCCESS;
MainJoinOutput ==
    /\ pc["main"] = "closing_out" /\ call["main"].at = "ret"
    /\ ThreadDone("out")
    /\ pc' = [pc EXCEPT !["main"] = "exit_success"]
    /\ UNCHANGED <<qvars, call, rv, cnt, spurious, hvars>>

\* thread_classify: while(auto value = tsq_in.pop())
WorkerPop(w) ==
    /\ \/ pc[w] = "run" /\ call[w] = NoCall
       \/ pc[w] = "pushed" /\ call[w].at = "ret"
    /\ Begin(w, "pop", "tsq_in", << >>)
    /\ pc' = [pc EXCEPT ![w] = "popped"]
    /\ UNCHANGED <<qvars, rv, cnt, spurious, hvars>>

\* the loop ends when pop() returned std::nullopt
WorkerExit(w) ==
    /\ pc[w] = "popped" /\ call[w].at = "ret" /\ rv[w] = nullopt
    /\ pc' = [pc EXCEPT ![w] = "done"]
    /\ UNCHANGED <<qvars, call, rv, cnt, spurious, hvars>>

\* faulty variant: the result of a classified image is not pushed
WorkerClassifiedNoPush(w) ==
    /\ pc[w] = "popped" /\ call[w].at = "ret" /\ rv[w] # nullopt
    /\ Begin(w, "pop", "tsq_in", << >>)
    /\ UNCHANGED <<qvars, rv, pc, cnt, spurious, hvars>>

\* the try block ran to its end: tsq_out.push(result);
WorkerClassified(w) ==
    /\ pc[w] = "popped" /\ call[w].at = "ret" /\ rv[w] # nullopt
    /\ Begin(w, "push", "tsq_out", FormatResult(rv[w][1]))
    /\ pc' = [pc EXCEPT ![w] = "pushed"]
    /\ UNCHANGED <<qvars, rv, cnt, spurious, hvars>>

\* faulty variant: a failed item is put back on the input queue
WorkerFailedRequeue(w) ==
    /\ pc[w] = "popped" /\ call[w].at = "ret" /\ rv[w] # nullopt
    /\ err' = Append(err, <<"could not process the file", rv[w][1]>>)
    /\ Begin(w, "push", "tsq_in", rv[w][1])
    /\ pc' = [pc EXCEPT ![w] = "pushed"]
    /\ UNCHANGED <<qvars, rv, cnt, spurious, pushlog, poplog, closedAt, lim, conv, post, cfg, inbuf, out>>

\* faulty variant: the exception ends the worker's loop
WorkerFailedExit(w) ==
    /\ pc[w] = "popped" /\ call[w].at = "ret" /\ rv[w] # nullopt
    /\ err' = Append(err, <<"could not process the file", rv[w][1]>>)
    /\ pc' = [pc EXCEPT ![w] = "done"]
    /\ UNCHANGED <<qvars, call, rv, cnt, spurious, pushlog, poplog, closedAt, lim, conv, post, cfg, inbuf, out>>

\* the try block threw (not a regular file, empty, too large, undecodable, or
\* predict failed): catch, write one message naming the path to std::cerr,
\* and go round the loop: tsq_in.pop()
WorkerFailed(w) ==
    /\ pc[w] = "popped" /\ call[w].at = "ret" /\ rv[w] # nullopt
    /\ err' = Append(err, <<"could not process the file", rv[w][1]>>)
    /\ Begin(w, "pop", "tsq_in", << >>)
    /\ UNCHANGED <<qvars, rv, pc, cnt, spurious, pushlog, poplog, closedAt, lim, conv, post, cfg, inbuf, out>>

\* thread_print_tsq: while(auto value = tsq.pop())
PrintPop ==
    /\ pc["out"] = "run" /\ Idle("out")
    /\ Begin("out", "pop", "tsq_out", << >>)
    /\ pc' = [pc EXCEPT !["out"] = "popped"]
    /\ UNCHANGED <<qvars, rv, cnt, spurious, hvars>>

\* faulty variant: the popped line is not written
PrintLineDrop ==
    /\ pc["out"] = "popped" /\ call["out"].at = "ret" /\ rv["out"] # nullopt
    /\ out' = out
    /\ Begin("out", "pop", "tsq_out", << >>)
    /\ UNCHANGED <<qvars, rv, pc, cnt, spurious, pushlog, poplog, closedAt, lim, conv, post, cfg, inbuf, err>>

\* std::cout << *value << std::endl; and round the loop: tsq.pop()
PrintLine ==
    /\ pc["out"] = "popped" /\ call["out"].at = "ret" /\ rv["out"] # nullopt
    /\ out' = Append(out, rv["out"][1])
    /\ Begin("out", "pop", "tsq_out", << >>)
    /\ UNCHANGED <<qvars, rv, pc, cnt, spurious, pushlog, poplog, closedAt, lim, conv, post, cfg, inbuf, err>>

PrintExit ==
    /\ pc["out"] = "popped" /\ call["out"].at = "ret" /\ rv["out"] = nullopt
    /\ pc' = [pc EXCEPT !["out"] = "done"]
    /\ UNCHANGED <<qvars, call, rv, cnt, spurious, hvars>>

\* faulty variant: every line is pushed whatever its extension
GetLineNoFilter ==
    /\ pc["inp"] = "run" /\ Idle("inp")
    /\ inbuf # << >>
    /\ inbuf' = Tail(inbuf)
    /\ Begin("inp", "push", "tsq_in", Head(inbuf))
    /\ UNCHANGED <<qvars, rv, pc, cnt, spurious, pushlog, poplog, closedAt, lim, conv, post, cfg, out, err>>

\* thread_get_line: while(std::getline(std::cin, line)) { push the line if its
\* extension is supported or the check is disabled }
GetLine ==
    /\ pc["inp"] = "run" /\ Idle("inp")
    /\ inbuf # << >>
    /\ inbuf' = Tail(inbuf)
    /\ IF cfg.disable_extension_check \/ is_supported_image(Head(inbuf)[1])
       THEN Begin("inp", "push", "tsq_in", Head(inbuf))
       ELSE call' = [call EXCEPT !["inp"] = NoCall]
    /\ UNCHANGED <<qvars, rv, pc, cnt, spurious, pushlog, poplog, closedAt, lim, conv, post, cfg, out, err>>

\* faulty variant: the input queue is closed only if a line was pushed
GetLineEofSkipEmpty ==
    /\ pc["inp"] = "run" /\ Idle("inp")
    /\ inbuf = << >> /\ cfg.eof
    /\ IF pushlog["tsq_in"] = << >>
       THEN /\ call' = [call EXCEPT !["inp"] = NoCall]
            /\ pc' = [pc EXCEPT !["inp"] = "done"]
       ELSE /\ Begin("inp", "close", "tsq_in", << >>)
            /\ pc' = [pc EXCEPT !["inp"] = "closing"]
    /\ UNCHANGED <<qvars, rv, cnt, spurious, hvars>>

\* at end of input: tsq_in.close(); std::getline blocks while the writer of
\* the pipe keeps it open without writing
GetLineEof ==
    /\ pc["inp"] = "run" /\ Idle("inp")
    /\ inbuf = << >> /\ cfg.eof
    /\ Begin("inp", "close", "tsq_in", << >>)
    /\ pc' = [pc EXCEPT !["inp"] = "closing"]
    /\ UNCHANGED <<qvars, rv, cnt, spurious, hvars>>

GetLineExit ==
    /\ pc["inp"] = "closing" /\ call["inp"].at = "ret"
    /\ pc' = [pc EXCEPT !["inp"] = "done"]
    /\ UNCHANGED <<qvars, call, rv, cnt, spurious, hvars>>

\* the configuration parse_arguments returns and what standard input holds
Config(pok, iok, n, tty, dec, exts, eof) ==
    [parse_ok |-> pok, init_ok |-> iok, threads |-> n, tty |-> tty,
     disable_extension_check |-> dec,
     image_files |-> IF tty THEN PathsOf(exts) ELSE << >>,
     lines |-> IF tty THEN << >> ELSE PathsOf(exts),
     eof |-> eof]

\* the start of main(): the command line, the classifier files, the terminal
\* or pipe on standard input
PipeInit ==
    /\ Fresh
    /\ lim = [calls |-> 0, spur |-> PipeSpurious]
    /\ pc = [t \in Threads |-> IF t = "main" THEN "parse" ELSE "off"]
    /\ out = << >> /\ err = << >>
    /\ \E exts \in Inputs, tty \in BOOLEAN, n \in 1..Len(WorkerSeq),
          pok \in BOOLEAN, iok \in BOOLEAN, dec \in BOOLEAN, eof \in BOOLEAN :
          \* a run that fails before the pipeline starts, and the extension
          \* check of a run that reads no lines, are taken once
          /\ ~ (pok /\ iok) => (exts = << >> /\ tty /\ n = 1 /\ ~ dec /\ (~ pok => iok))
          /\ tty => ~ dec
          /\ (tty \/ dec) => exts \in Alternating
          \* a pipe that is never closed by its writer carries no lines
          /\ ~ eof => (~ tty /\ ~ dec /\ exts = << >> /\ pok /\ iok)
          /\ cfg = Config(pok, iok, n, tty, dec, exts, eof)
          /\ inbuf = cfg.lines

PipeNext ==
    \/ QueueNext
    \/ MainParse \/ MainInitClassifier \/ MainStartOutput \/ MainStartWorker
    \/ MainProduce \/ MainPushFile \/ MainCloseInput \/ MainProduced
    \/ MainJoinWorker \/ MainCloseOutput \/ MainJoinOutput
    \/ \E w \in Workers : WorkerPop(w)
    \/ \E w \in Workers : WorkerExit(w)
    \/ \E w \in Workers : WorkerClassified(w)
    \/ \E w \in Workers : WorkerFailed(w)
    \/ PrintPop \/ PrintLine \/ PrintExit
    \/ GetLine \/ GetLineEof \/ GetLineExit

PipeSpec == PipeInit /\ [][PipeNext]_vars

\* faulty variant: the call that never returns is made with tsq_in locked
WorkerHungLocked(w) ==
    /\ pc[w] = "popped" /\ call[w].at = "ret" /\ rv[w] # nullopt
    /\ \A v \in Workers : pc[v] # "hung"
    /\ mutex["tsq_in"] = NoThread
    /\ mutex' = [mutex EXCEPT !["tsq_in"] = w]
    /\ pc' = [pc EXCEPT ![w] = "hung"]
    /\ UNCHANGED <<queue, done, waiting, call, rv, cnt, spurious, hvars>>

\* model.predict (or cv::imread) never returns: the worker stays in its try
\* block; one such call per run
WorkerHung(w) ==
    /\ pc[w] = "popped" /\ call[w].at = "ret" /\ rv[w] # nullopt
    /\ \A v \in Workers : pc[v] # "hung"
    /\ pc' = [pc EXCEPT ![w] = "hung"]
    /\ UNCHANGED <<qvars, call, rv, cnt, spurious, hvars>>

LiveInputs == UNION {[1..n -> Extensions] : n \in 0..LiveLines}

LiveAlternating == {[i \in 1..n |-> IF i % 2 = 1 THEN "png" ELSE "txt"] : n \in 0..LiveInput}

PipeLiveInit ==
    /\ Fresh
    /\ lim = [calls |-> 0, spur |-> LivePipeSpurious]
    /\ pc = [t \in Threads |-> IF t = "main" THEN "parse" ELSE "off"]
    /\ out = << >> /\ err = << >>
    /\ \E exts \in LiveInputs \cup LiveAlternating, tty \in BOOLEAN,
          n \in 1..Len(WorkerSeq), dec \in BOOLEAN :
          /\ IF tty THEN exts \in LiveAlternating /\ ~ dec ELSE exts \in LiveInputs
          /\ cfg = Config(TRUE, TRUE, n, tty, dec, exts, TRUE)
          /\ inbuf = cfg.lines

PipeLiveNext ==
    \/ PipeNext
    \/ \E w \in Workers : WorkerHung(w)

\* the steps the scheduler owes a pipeline thread: every step of its code
\* but the wait for a notification inside cv.wait
PipeRun(t) ==
    \/ PushLock(t) \/ PushCS(t) \/ PushNotify(t)
    \/ PopLock(t) \/ PopWait(t) \/ PopRelock(t) \/ PopCS(t)
    \/ CloseLock(t) \/ CloseCS(t) \/ CloseNotify(t)
    \/ (t = "main" /\ (\/ MainParse \/ MainInitClassifier \/ MainStartOutput
                       \/ MainStartWorker \/ MainProduce \/ MainPushFile
                       \/ MainCloseInput \/ MainProduced \/ MainJoinWorker
                       \/ MainCloseOutput \/ MainJoinOutput))
    \/ (t \in Workers /\ (\/ WorkerPop(t) \/ WorkerExit(t) \/ WorkerClassified(t)
                           \/ WorkerFailed(t) \/ WorkerHung(t)))
    \/ (t = "out" /\ (PrintPop \/ PrintLine \/ PrintExit))
    \/ (t = "inp" /\ (GetLine \/ GetLineEof \/ GetLineExit))

PipeFairSpec ==
    PipeLiveInit /\ [][PipeLiveNext]_vars /\ \A t \in PipeThreads : WF_vars(PipeRun(t))

\* steps the scheduler owes a thread: a thread inside a tsqueue method goes on
\* (a thread parked in cv.wait goes on once it has been woken), and a consumer
\* whose pop() returned a value calls pop() again
Run(t) ==
    \/ PushLock(t) \/ PushCS(t) \/ PushNotify(t)
    \/ PopLock(t) \/ PopWait(t) \/ PopRelock(t) \/ PopCS(t)
    \/ CloseLock(t) \/ CloseCS(t) \/ CloseNotify(t)
    \/ (t \in Consumers /\ ConsumerPop(t))

LiveInit ==
    /\ Fresh /\ NoPipeline
    /\ lim = [calls |-> LiveCalls, spur |-> LiveSpurious]
    /\ \E A \in Scenarios : pc = [t \in Threads |-> IF t \in A THEN "run" ELSE "off"]

FairSpec == LiveInit /\ [][Next]_vars /\ \A t \in Threads : WF_vars(Run(t))

\* ------------------------------------------- string_unit_to_numeric
\* strings are sequences of one-character strings
DigitChars == <<"0", "1", "2", "3", "4", "5", "6", "7", "8", "9">>

Digits == {DigitChars[i] : i \in DOMAIN DigitChars}

DigitVal(c) == (CHOOSE i \in DOMAIN DigitChars : DigitChars[i] = c) - 1

\* std::isspace
isspace(c) == c \in {" "}

\* std::tolower
tolower(c) ==
    CASE c = "B" -> "b" [] c = "K" -> "k" [] c = "M" -> "m"
      [] c = "G" -> "g" [] c = "T" -> "t" [] OTHER -> c

RECURSIVE TrimLeft(_)
\* s.erase(s.begin(), find_if(s.begin(), s.end(), not isspace))
TrimLeft(s) == IF s # << >> /\ isspace(Head(s)) THEN TrimLeft(Tail(s)) ELSE s

RECURSIVE TrimRight(_)
\* s.erase(find_if(s.rbegin(), s.rend(), not isspace).base(), s.end())
TrimRight(s) ==
    IF s # << >> /\ isspace(s[Len(s)]) THEN TrimRight(SubSeq(s, 1, Len(s) - 1)) ELSE s

\* s.find_first_not_of("0123456789"); Len(s) + 1 stands for std::string::npos
FindFirstNotOfDigits(s) ==
    IF \A i \in DOMAIN s : s[i] \in Digits THEN Len(s) + 1
    ELSE CHOOSE i \in DOMAIN s :
            s[i] \notin Digits /\ \A j \in 1..(i - 1) : s[j] \in Digits

\* std::numeric_limits<uint64_t>::max(), also ULLONG_MAX
max_val == 2 ^ UintBits - 1

RECURSIVE DecimalValue(_)
\* the number a digit string denotes
DecimalValue(ds) ==
    IF ds = << >> THEN 0
    ELSE 10 * DecimalValue(SubSeq(ds, 1, Len(ds) - 1)) + DigitVal(ds[Len(ds)])

\* static const std::map<std::string, uint64_t> multipliers
multipliers ==
    [u \in {<<"b">>, <<"k">>, <<"k", "b">>, <<"m">>, <<"m", "b">>,
            <<"g">>, <<"g", "b">>, <<"t">>, <<"t", "b">>} |->
        IF u = <<"b">> THEN 1
        ELSE IF u[1] = "k" THEN Kilo
        ELSE IF u[1] = "m" THEN Kilo * Kilo
        ELSE IF u[1] = "g" THEN Kilo * Kilo * Kilo
        ELSE Kilo * Kilo * Kilo * Kilo]

\* a throw: the function is left with the exception type
Throw(e) == conv' = [conv EXCEPT !.at = "thrown", !.thrown = e]

\* trim leading and trailing whitespace; if(s.empty()) throw std::invalid_argument
ConvTrim ==
    /\ conv.at = "trim"
    /\ LET t == TrimRight(TrimLeft(conv.unit)) IN
         IF t = << >> THEN Throw("invalid_argument")
         ELSE conv' = [conv EXCEPT !.at = "lower", !.s = t]
    /\ UNCHANGED <<qvars, call, rv, pc, cnt, spurious, lim, iovars, pushlog, poplog, closedAt, post>>

\* std::transform(..., tolower)
ConvLower ==
    /\ conv.at = "lower"
    /\ conv' = [conv EXCEPT !.at = "split", !.s = [i \in DOMAIN conv.s |-> tolower(conv.s[i])]]
    /\ UNCHANGED <<qvars, call, rv, pc, cnt, spurious, lim, iovars, pushlog, poplog, closedAt, post>>

\* split_position, number_str, unit_str; if(number_str.empty()) throw std::invalid_argument
ConvSplit ==
    /\ conv.at = "split"
    /\ LET split_position == FindFirstNotOfDigits(conv.s)
           number_str == SubSeq(conv.s, 1, split_position - 1)
           unit_str == SubSeq(conv.s, split_position, Len(conv.s))
       IN IF number_str = << >> THEN Throw("invalid_argument")
          ELSE conv' = [conv EXCEPT !.at = "stoull", !.number_str = number_str,
                                    !.unit_str = unit_str]
    /\ UNCHANGED <<qvars, call, rv, pc, cnt, spurious, lim, iovars, pushlog, poplog, closedAt, post>>

\* uint64_t number = std::stoull(number_str); std::stoull throws
\* std::out_of_range when the value does not fit in unsigned long long
ConvStoull ==
    /\ conv.at = "stoull"
    /\ IF DecimalValue(conv.number_str) > max_val THEN Throw("out_of_range")
       ELSE conv' = [conv EXCEPT !.at = "unit", !.number = DecimalValue(conv.number_str)]
    /\ UNCHANGED <<qvars, call, rv, pc, cnt, spurious, lim, iovars, pushlog, poplog, closedAt, post>>

\* the multiplier of unit_str: found in the map, 1 for no unit, otherwise
\* throw std::invalid_argument
ConvMultiplier ==
    /\ conv.at = "unit"
    /\ IF conv.unit_str \in DOMAIN multipliers
       THEN conv' = [conv EXCEPT !.at = "check", !.multiplier = multipliers[conv.unit_str]]
       ELSE IF conv.unit_str = << >>
       THEN conv' = [conv EXCEPT !.at = "check", !.multiplier = 1]
       ELSE Throw("invalid_argument")
    /\ UNCHANGED <<qvars, call, rv, pc, cnt, spurious, lim, iovars, pushlog, poplog, closedAt, post>>

\* if(multiplier > 1 && number > max_val / multiplier) throw std::overflow_error;
\* return number * multiplier;
ConvReturn ==
    /\ conv.at = "check"
    /\ IF conv.multiplier > 1 /\ conv.number > max_val \div conv.multiplier
       THEN Throw("overflow_error")
       ELSE conv' = [conv EXCEPT !.at = "returned",
                                 !.result = (conv.number * conv.multiplier) % (2 ^ UintBits)]
    /\ UNCHANGED <<qvars, call, rv, pc, cnt, spurious, lim, iovars, pushlog, poplog, closedAt, post>>

\* the digits the numeric part of an argument is written with
ArgDigits == {"0", "1", "2", "9"}

ArgNumbers == UNION {[1..n -> ArgDigits] : n \in 0..MaxDigits}

\* what follows the numeric part: units of the map in either case, no unit,
\* and strings that are no unit
ArgSuffixes == {<< >>, <<"b">>, <<"k">>, <<"K", "B">>, <<"m">>, <<"M", "b">>, <<"g">>,
                <<"G", "B">>, <<"t">>, <<"t", "b">>, <<"x">>, <<"k", "x">>, <<" ", "k">>}

ArgSpaces == {<< >>, <<" ">>}

\* a call string_unit_to_numeric(unit): nothing else runs
ConvInit ==
    /\ FreshQueues /\ NoPipeline
    /\ lim = [calls |-> 0, spur |-> 0]
    /\ pc = [t \in Threads |-> "off"]
    /\ post = NoPost
    /\ \E ds \in ArgNumbers, u \in ArgSuffixes, sp \in ArgSpaces :
          conv = [NoConv EXCEPT !.at = "trim", !.unit = sp \o ds \o u \o sp,
                                !.digits = ds, !.suffix = u]

ConvNext ==
    \/ ConvTrim \/ ConvLower \/ ConvSplit
    \/ ConvStoull \/ ConvMultiplier \/ ConvReturn

ConvSpec == ConvInit /\ [][ConvNext]_vars

\* ------------------------------------------- yolo::predict, post-processing
\* the name on line n of the class names file
ClassName(n) == <<"name", n>>

\* "class_" + std::to_string(class_index)
FallbackLabel(class_index) == <<"class_", class_index>>

\* what a read of class_names[class_names.size()] can yield
Garbage == <<"garbage">>

\* std::sort with a.second > b.second: the orders of the class indices in
\* which the scores do not increase (equal scores may come in either order)
SortedOrders(scores) ==
    {p \in [DOMAIN scores -> DOMAIN scores] :
        /\ \A a, b \in DOMAIN scores : a # b => p[a] # p[b]
        /\ \A a, b \in DOMAIN scores : a < b => scores[p[a]] >= scores[p[b]]}

\* indexed_scores.emplace_back(i, scores[i]) for every i, then std::sort
PostSort ==
    /\ post.at = "sort"
    /\ \E p \in SortedOrders(post.scores) :
          post' = [post EXCEPT !.at = "loop", !.i = 0,
                     !.indexed_scores = [k \in DOMAIN p |-> <<p[k] - 1, post.scores[p[k]]>>]]
    /\ UNCHANGED <<qvars, call, rv, pc, cnt, spurious, lim, iovars, pushlog, poplog, closedAt, conv>>

\* size_t count = std::min(top_k, indexed_scores.size());
PostCount == IF post.top_k < Len(post.indexed_scores) THEN post.top_k
             ELSE Len(post.indexed_scores)

\* one iteration of the loop with class_index # class_names.size():
\* if(class_index <= class_names.size()) push {class_names[class_index], confidence}
\* else push {"class_" + std::to_string(class_index), confidence}
PostLabel ==
    /\ post.at = "loop" /\ post.i < PostCount
    /\ LET class_index == post.indexed_scores[post.i + 1][1]
           confidence == post.indexed_scores[post.i + 1][2]
       IN /\ class_index # Len(post.class_names)
          /\ post' = [post EXCEPT !.i = @ + 1,
                !.top_predictions = Append(@,
                    IF class_index <= Len(post.class_names)
                    THEN <<post.class_names[class_index + 1], confidence>>
                    ELSE <<FallbackLabel(class_index), confidence>>)]
    /\ UNCHANGED <<qvars, call, rv, pc, cnt, spurious, lim, iovars, pushlog, poplog, closedAt, conv>>

\* the iteration with class_index = class_names.size(): the test
\* class_index <= class_names.size() passes and class_names[class_index]
\* reads one element past the end of the vector; the read yields some string
\* or the process dies
PostLabelPastEnd ==
    /\ post.at = "loop" /\ post.i < PostCount
    /\ LET class_index == post.indexed_scores[post.i + 1][1]
           confidence == post.indexed_scores[post.i + 1][2]
       IN /\ class_index = Len(post.class_names)
          /\ \/ \E label \in {Garbage, FallbackLabel(class_index)}
                              \cup {post.class_names[n] : n \in DOMAIN post.class_names} :
                   post' = [post EXCEPT !.i = @ + 1, !.out_of_bounds = TRUE,
                              !.top_predictions = Append(@, <<label, confidence>>)]
             \/ post' = [post EXCEPT !.at = "crashed", !.out_of_bounds = TRUE]
    /\ UNCHANGED <<qvars, call, rv, pc, cnt, spurious, lim, iovars, pushlog, poplog, closedAt, conv>>

\* return top_predictions;
PostReturn ==
    /\ post.at = "loop" /\ post.i >= PostCount
    /\ post' = [post EXCEPT !.at = "returned"]
    /\ UNCHANGED <<qvars, call, rv, pc, cnt, spurious, lim, iovars, pushlog, poplog, closedAt, conv>>

\* a call of predict at the point where the model's output has been copied
\* to scores: the class names loaded, the scores (small integers stand for
\* the floats), top_k
PostInit ==
    /\ FreshQueues /\ NoPipeline
    /\ lim = [calls |-> 0, spur |-> 0]
    /\ pc = [t \in Threads |-> "off"]
    /\ conv = NoConv
    /\ \E n \in 0..MaxNames, m \in 1..MaxClasses, k \in 0..MaxTopK :
          \E sc \in [1..m -> 1..m] :
             post = [NoPost EXCEPT !.at = "sort", !.top_k = k, !.scores = sc,
                                   !.class_names = [j \in 1..n |-> ClassName(j - 1)]]

PostNext == PostSort \/ PostLabel \/ PostLabelPastEnd \/ PostReturn

PostSpec == PostInit /\ [][PostNext]_vars

\* ------------------------------------------------------------- histories
IsPrefix(a, b) == Len(a) <= Len(b) /\ SubSeq(b, 1, Len(a)) = a

\* the values pop() returned on queue q, in the order pop() removed them
PopVals(q) ==
    LET S == SelectSeq(poplog[q], LAMBDA e : e[2] # nullopt)
    IN [i \in 1..Len(S) |-> S[i][2][1]]

Range(s) == {s[i] : i \in DOMAIN s}

Count(s, v) == Cardinality({i \in DOMAIN s : s[i] = v})

\* the threads whose pop() on q has returned (a value or std::nullopt)
Poppers(q) == {poplog[q][i][1] : i \in DOMAIN poplog[q]}

\* the threads that appended to q
Pushers(q) == {pushlog[q][i][1] : i \in DOMAIN pushlog[q]}

\* the items appended to q, in that order
PushVals(q) == [i \in DOMAIN pushlog[q] |-> pushlog[q][i][2]]

\* the items appended to q before its first close()
PreClose(q) ==
    {pushlog[q][i][2] : i \in {j \in DOMAIN pushlog[q] : closedAt[q] = -1 \/ j <= closedAt[q]}}

AllItems == Producers \X (1..LiveCalls)

TypeOK ==
    /\ \A q \in Queues : mutex[q] \in Threads \cup {NoThread}
    /\ \A q \in Queues : waiting[q] \subseteq Threads
    /\ \A t \in Threads : Len(rv[t]) <= 1

\* ------------------------------------------------------------------ C1
C1_ExactlyOnce ==
    /\ \A v \in Range(PushVals(TQ)) :
          Count(PopVals(TQ), v) + Count(queue[TQ], v) = 1
    /\ Range(PopVals(TQ)) \cup Range(queue[TQ]) \subseteq Range(PushVals(TQ))

\* C1: every item pushed before close() is eventually returned by exactly one
\* pop() call, whatever the number of consumers: at any time a pushed item is
\* either still queued or has been returned once, never twice and never by
\* nobody; and an item pushed before close() does get returned.
C1_NoLossNoDup ==
    /\ []C1_ExactlyOnce
    /\ \A it \in AllItems :
          (it \in PreClose(TQ)) ~> (it \in Range(PopVals(TQ)))

C1_Witness ==
    /\ done[TQ] /\ closedAt[TQ] >= 1
    /\ PreClose(TQ) \subseteq Range(PopVals(TQ))
    /\ Consumers \subseteq Poppers(TQ)

\* ------------------------------------------------------------------ C2
\* C2: pop() returns std::nullopt if and only if, when it looks at the queue
\* under the lock, the queue is closed and empty; otherwise it returns the head.
C2_EosIffClosedEmpty ==
    [][\A t \in Threads :
         (At(t, "pop", "cs") /\ call'[t].at = "ret") =>
            IF done[call[t].q] /\ queue[call[t].q] = << >>
            THEN rv'[t] = nullopt
            ELSE queue[call[t].q] # << >> /\ rv'[t] = <<Head(queue[call[t].q])>>]_vars

C2_Witness ==
    \E i, j \in DOMAIN poplog[TQ] : poplog[TQ][i][2] = nullopt /\ poplog[TQ][j][2] # nullopt

\* ------------------------------------------------------------------ C3
\* C3: a closed queue accepts no further items: a push() after close() leaves
\* the sequence unchanged, so nothing is appended once done is set.
C3_ClosedAcceptsNothing ==
    \A q \in Queues : done[q] => Len(pushlog[q]) = closedAt[q]

\* ------------------------------------------------------------------ C4
C4_Fifo ==
    /\ IsPrefix(PopVals(TQ), PushVals(TQ))
    /\ PushVals(TQ) = PopVals(TQ) \o queue[TQ]
    /\ \A k \in DOMAIN poplog[TQ] :
          poplog[TQ][k][2] = nullopt =>
             /\ closedAt[TQ] # -1
             /\ Cardinality({j \in 1..k : poplog[TQ][j][2] # nullopt}) >= closedAt[TQ]

\* C4: close() discards nothing: it leaves the sequence as it is, the items
\* enqueued before it are returned by the later pop() calls in FIFO order, and
\* pop() returns end-of-stream only after all of them have been returned.
C4_CloseKeepsItems ==
    /\ []C4_Fifo
    /\ [][\A t \in Threads :
            (At(t, "close", "cs") /\ call'[t].at = "notify") =>
                queue'[call[t].q] = queue[call[t].q]]_vars

C4_Witness ==
    /\ closedAt[TQ] >= 2
    /\ \E k \in DOMAIN poplog[TQ] :
          /\ poplog[TQ][k][2] = nullopt
          /\ \E j \in 1..k : poplog[TQ][j][2] # nullopt

\* ------------------------------------------------------------------ C5
NoInterleavedClose(q) == closedAt[q] = -1 \/ closedAt[q] = Len(pushlog[q])

\* C5: with a single producer, no close between its pushes and a single
\* consumer, the values pop() returns are the producer's items in push order:
\* the k-th value returned is the k-th item pushed.
C5_SingleProducerFifo ==
    \A p \in Producers : \A c \in Consumers :
       (Pushers(TQ) \subseteq {p} /\ Poppers(TQ) \subseteq {c} /\ NoInterleavedClose(TQ)) =>
           /\ \A k \in DOMAIN PopVals(TQ) : PopVals(TQ)[k] = <<p, k>>
           /\ (queue[TQ] = << >> => PopVals(TQ) = PushVals(TQ))

C5_Witness ==
    /\ Cardinality(Pushers(TQ)) = 1 /\ Cardinality(Poppers(TQ)) = 1
    /\ NoInterleavedClose(TQ)
    /\ Len(pushlog[TQ]) >= 3 /\ PopVals(TQ) = PushVals(TQ)

\* ------------------------------------------------------------------ C6
ItemsOf(p, s) == SelectSeq(s, LAMBDA v : v[1] = p)

\* C6: with several producers pushing concurrently and a single consumer, the
\* consumer pops the items of each producer in that producer's push order.
C6_PerProducerFifo ==
    \A c \in Consumers :
       Poppers(TQ) \subseteq {c} =>
          \A p \in Producers :
             \A k \in DOMAIN ItemsOf(p, PopVals(TQ)) : ItemsOf(p, PopVals(TQ))[k] = <<p, k>>

C6_Witness ==
    /\ Cardinality(Poppers(TQ)) = 1
    /\ Len(PopVals(TQ)) >= 3
    /\ Len(ItemsOf("p1", PopVals(TQ))) >= 2
    /\ PopVals(TQ)[1][1] = "p1" /\ PopVals(TQ)[2][1] = "p2"

\* ------------------------------------------------------------------ C7
\* C7: close() is irreversible and idempotent: done never goes back to false,
\* a close() of a closed queue changes neither the sequence nor the flag, and a
\* pop() that finds the queue closed and empty does not wait and returns
\* std::nullopt, leaving the queue as it was, every time.
C7_CloseIdempotent ==
    [][/\ \A q \in Queues : done[q] => done'[q]
       /\ \A t \in Threads :
            (At(t, "close", "cs") /\ done[call[t].q] /\ call'[t].at = "notify") =>
                (queue' = queue /\ done' = done)
       /\ \A t \in Threads :
            (At(t, "pop", "pred") /\ done[call[t].q] /\ queue[call[t].q] = << >>
               /\ call'[t] # call[t]) => call'[t].at = "cs"
       /\ \A t \in Threads :
            (At(t, "pop", "cs") /\ done[call[t].q] /\ queue[call[t].q] = << >>
               /\ call'[t] # call[t]) =>
                (rv'[t] = nullopt /\ queue' = queue /\ done' = done)]_vars

C7_Witness ==
    /\ \E k \in Closers : cnt[k] >= 2 /\ call[k].at = "ret"
    /\ \E c \in Consumers :
          Cardinality({i \in DOMAIN poplog[TQ] : poplog[TQ][i] = <<c, nullopt>>}) >= 2

\* ------------------------------------------------------------------ C8
\* no item has been appended since the queue was closed
NoLatePush(q) == done[q] /\ Len(pushlog[q]) = closedAt[q]

\* C8: every consumer parked in pop() when the queue is closed is woken and
\* returns; it returns std::nullopt when the queue is empty and nothing is
\* pushed after the close.
C8_CloseUnblocksAll ==
    \A c \in Consumers :
       /\ (At(c, "pop", "parked") /\ done[TQ]) ~> At(c, "pop", "ret")
       /\ (At(c, "pop", "parked") /\ queue[TQ] = << >> /\ NoLatePush(TQ))
             ~> ((At(c, "pop", "ret") /\ rv[c] = nullopt) \/ ~ NoLatePush(TQ))

C8_Witness ==
    /\ done[TQ] /\ queue[TQ] = << >> /\ NoLatePush(TQ)
    /\ waiting[TQ] = {"c1", "c2"}

\* ------------------------------------------------------------------ C9
\* C9: no wakeup is lost on push: an item that is in the queue while a consumer
\* is parked in pop() is eventually returned by some pop(), and no consumer
\* stays parked for ever in front of a non-empty queue.
C9_NoLostWakeup ==
    /\ \A it \in AllItems :
          (it \in Range(queue[TQ]) /\ \E c \in Consumers : At(c, "pop", "parked"))
             ~> (it \in Range(PopVals(TQ)))
    /\ \A c \in Consumers :
          (queue[TQ] # << >> /\ c \in waiting[TQ])
             ~> (queue[TQ] = << >> \/ c \notin waiting[TQ])

C9_Witness ==
    /\ ~ done[TQ] /\ queue[TQ] # << >>
    /\ \E c \in Consumers : c \in waiting[TQ]
    /\ \E p \in Producers : At(p, "push", "notify")

\* ----------------------------------------------------------------- C10
\* C10: the output queue is closed only after every worker thread has
\* terminated: whenever main is closing tsq_out or tsq_out is closed, each of
\* the config.threads workers has returned from thread_classify.
C10_OutClosedAfterWorkers ==
    (done["tsq_out"] \/ (call["main"].op = "close" /\ call["main"].q = "tsq_out")) =>
        \A i \in DOMAIN WorkerSeq :
            pc[WorkerSeq[i]] = IF i <= cfg.threads THEN "done" ELSE "off"

C10_Witness ==
    /\ done["tsq_out"]
    /\ cfg.threads = 2
    /\ Pushers("tsq_out") = Workers

\* ---------------------------------------------------------------------------
\* C11: the collector writes to standard output exactly the lines pushed to
\* tsq_out, each once and in the order it popped them (at most the line it
\* has just popped is not yet written); it returns only after a pop() gave
\* std::nullopt; and when main returns EXIT_SUCCESS every line a worker pushed
\* has been written and is no longer queued.
C11_CollectorEmitsAll ==
    /\ Poppers("tsq_out") \subseteq {"out"}
    /\ IsPrefix(out, PopVals("tsq_out"))
    /\ Len(PopVals("tsq_out")) <= Len(out) + 1
    /\ (Len(PopVals("tsq_out")) = Len(out) + 1) =>
           (pc["out"] = "popped" /\ call["out"].at = "ret" /\ rv["out"] # nullopt)
    /\ IsPrefix(PopVals("tsq_out"), PushVals("tsq_out"))
    /\ pc["out"] = "done" =>
           (rv["out"] = nullopt /\ <<"out", nullopt>> \in Range(poplog["tsq_out"]))
    /\ pc["main"] = "exit_success" =>
           (pc["out"] = "done" /\ out = PushVals("tsq_out") /\ queue["tsq_out"] = << >>)

C11_Witness ==
    /\ pc["main"] = "exit_success"
    /\ Len(out) = 2
    /\ Pushers("tsq_out") = {"w1", "w2"}

\* main has joined every worker thread
WorkersJoined ==
    \/ pc["main"] = "join_workers" /\ cnt["main"] >= cfg.threads
    \/ pc["main"] \in {"closing_out", "exit_success"}

\* ---------------------------------------------------------------------------
\* C12: K items pushed to tsq_in and then close(), N >= 1 workers, no
\* classification failing: once main has joined all workers, tsq_out has
\* received exactly K lines, one for each item.
C12_OneResultPerItem ==
    (WorkersJoined /\ err = << >>) =>
        /\ done["tsq_in"]
        /\ Len(pushlog["tsq_out"]) = Len(pushlog["tsq_in"])
        /\ \A i \in DOMAIN pushlog["tsq_in"] :
               Count(PushVals("tsq_out"), FormatResult(PushVals("tsq_in")[i])) = 1

C12_Witness ==
    /\ WorkersJoined /\ err = << >>
    /\ Len(pushlog["tsq_in"]) = 2
    /\ Pushers("tsq_out") = {"w1", "w2"}

\* the diagnostic a worker writes for item x
Diagnostic(x) == <<"could not process the file", x>>

\* the items some worker has reported as failed
FailedItems == {e[2] : e \in {d \in Range(err) : d[1] = "could not process the file"}}

\* every failed item has one diagnostic and no line on tsq_out, and was
\* popped from tsq_in
C13_FailedItemState ==
    \A x \in FailedItems :
        /\ Count(err, Diagnostic(x)) = 1
        /\ FormatResult(x) \notin Range(PushVals("tsq_out"))
        /\ Count(PopVals("tsq_in"), x) = 1

\* the step in which worker w reports the failure of the item it holds
C13_FailureStep(w) ==
    /\ pc[w] = "popped" /\ call[w].at = "ret" /\ rv[w] # nullopt
    /\ Len(err') = Len(err) + 1
    /\ err'[Len(err')] = Diagnostic(rv[w][1])

\* ---------------------------------------------------------------------------
\* C13: when processing item X fails, the worker pushes no line for X, writes
\* exactly one diagnostic naming X, leaves both queues as they are, does not
\* return, and goes on to pop the next item; the other threads are untouched.
C13_WorkerIsolation ==
    /\ [] C13_FailedItemState
    /\ [][\A w \in Workers : C13_FailureStep(w) =>
              /\ err' = Append(err, Diagnostic(rv[w][1]))
              /\ UNCHANGED <<queue, done, pushlog, poplog, closedAt, out, waiting, mutex>>
              /\ pc'[w] = "popped"
              /\ call'[w] = [op |-> "pop", q |-> "tsq_in", at |-> "lock", arg |-> << >>]
              /\ \A t \in Threads \ {w} : pc'[t] = pc[t] /\ call'[t] = call[t] /\ rv'[t] = rv[t]
       ]_vars

\* a worker that failed on one item has afterwards classified another
C13_Witness ==
    /\ cfg.threads = 1
    /\ FailedItems = {<<"png", 1>>}
    /\ PushVals("tsq_out") = <<FormatResult(<<"txt", 2>>)>>

\* how many times item x has been processed to an outcome
Outcomes(x) == Count(PushVals("tsq_out"), FormatResult(x)) + Count(err, Diagnostic(x))

\* ---------------------------------------------------------------------------
\* C14: every item put on tsq_in is put there once, by the producer, and is
\* handed to at most one worker and processed at most once; no worker puts an
\* item back; when all workers have been joined every item has been popped by
\* exactly one worker and processed exactly once.
C14_ExactlyOneWorker ==
    /\ Pushers("tsq_in") \subseteq {"main", "inp"}
    /\ Poppers("tsq_in") \subseteq Workers
    /\ \A x \in Range(PushVals("tsq_in")) :
          /\ Count(PushVals("tsq_in"), x) = 1
          /\ Count(PopVals("tsq_in"), x) <= 1
          /\ Outcomes(x) <= Count(PopVals("tsq_in"), x)
          /\ WorkersJoined => (Count(PopVals("tsq_in"), x) = 1 /\ Outcomes(x) = 1)
    /\ Range(PopVals("tsq_in")) \subseteq Range(PushVals("tsq_in"))

C14_Witness ==
    /\ WorkersJoined
    /\ Len(PushVals("tsq_in")) = 2
    /\ {poplog["tsq_in"][i][1] : i \in {j \in DOMAIN poplog["tsq_in"] :
                                            poplog["tsq_in"][j][2] # nullopt}} = {"w1", "w2"}
    /\ FailedItems # {}

\* some classification call has not returned
SomeHung == \E w \in Workers : pc[w] = "hung"

\* the worker threads main started
Started == {WorkerSeq[i] : i \in 1..cfg.threads}

\* ---------------------------------------------------------------------------
\* C15: once tsq_in is closed, and provided every classification call
\* returns, every worker thread eventually returns and main's joins of the
\* workers eventually complete.
C15_WorkersTerminate ==
    done["tsq_in"] ~>
        (SomeHung \/ (WorkersJoined /\ queue["tsq_in"] = << >>
                          /\ \A w \in Started : pc[w] = "done"))

C15_Witness ==
    /\ done["tsq_in"] /\ WorkersJoined /\ ~ SomeHung
    /\ cfg.threads = 2 /\ Len(PopVals("tsq_in")) = 2
    /\ \A w \in Started : pc[w] = "done"

\* the lines of standard input that thread_get_line pushes
Accepted ==
    SelectSeq(cfg.lines,
              LAMBDA p : cfg.disable_extension_check \/ is_supported_image(p[1]))

\* the input thread runs and standard input holds no line it will push
NothingAccepted == ~ cfg.tty /\ cfg.eof /\ Accepted = << >>

\* ---------------------------------------------------------------------------
\* C16: when the input thread reads no line, or filters every line out, it
\* still closes tsq_in with nothing pushed; every worker then gets
\* std::nullopt and returns without pushing; tsq_out and standard output stay
\* empty; and the collector returns, after tsq_out has been closed.
C16_EmptyStream ==
    /\ [] (NothingAccepted =>
              /\ pushlog["tsq_in"] = << >> /\ pushlog["tsq_out"] = << >> /\ out = << >>
              /\ PopVals("tsq_in") = << >>
              /\ pc["out"] = "done" => done["tsq_out"])
    /\ (NothingAccepted /\ pc["inp"] = "run") ~>
           (/\ done["tsq_in"] /\ pc["inp"] = "done"
            /\ \A w \in Started : pc[w] = "done" /\ <<w, nullopt>> \in Range(poplog["tsq_in"])
            /\ done["tsq_out"] /\ pc["out"] = "done"
            /\ pc["main"] = "exit_success")

C16_Witness ==
    /\ NothingAccepted /\ Len(cfg.lines) = 1 /\ cfg.threads = 2
    /\ pc["main"] = "exit_success"
    /\ \A w \in Started : pc[w] = "done"
    /\ inbuf = << >> /\ done["tsq_in"]

\* worker w has not got past the wait inside tsq_in.pop()
BlockedInPop(w) ==
    /\ pc[w] = "popped"
    /\ call[w].op = "pop" /\ call[w].q = "tsq_in"
    /\ call[w].at \in {"lock", "pred", "parked"}

\* ---------------------------------------------------------------------------
\* C17: a worker returns only after a pop() on tsq_in gave it std::nullopt;
\* while tsq_in is not closed and nothing has been pushed to it, no pop() of
\* any worker returns and no worker terminates; with standard input held
\* open and silent that is so in every reachable state, and main never gets
\* past the join of the input thread.
C17_WorkersBlockUntilClose ==
    /\ \A w \in Workers :
          pc[w] = "done" => (rv[w] = nullopt /\ <<w, nullopt>> \in Range(poplog["tsq_in"]))
    /\ (~ done["tsq_in"] /\ pushlog["tsq_in"] = << >>) =>
          /\ poplog["tsq_in"] = << >>
          /\ \A w \in Workers : pc[w] \in {"off", "run"} \/ BlockedInPop(w)
    /\ ~ cfg.eof =>
          /\ ~ done["tsq_in"] /\ pushlog["tsq_in"] = << >>
          /\ pc["main"] \in {"parse", "init", "start_out", "start_workers", "join_input"}
          /\ pc["out"] # "done"

\* both workers wait inside pop(), one of them again after a spurious wakeup
C17_Witness ==
    /\ ~ cfg.eof /\ cfg.threads = 2
    /\ waiting["tsq_in"] = {"w1", "w2"}
    /\ spurious = 1
    /\ pc["inp"] = "run" /\ pc["main"] = "join_input"

\* item x is held by the worker whose classification call never returns
HeldByHung(x) == \E w \in Workers : pc[w] = "hung" /\ rv[w] = <<x>>

\* the items put on tsq_in that have no outcome yet: not reported as failed,
\* not written by the collector, not held by the stuck worker
Unsettled ==
    {x \in Range(PushVals("tsq_in")) :
        ~ (HeldByHung(x) \/ x \in FailedItems \/ FormatResult(x) \in Range(out))}

\* ---------------------------------------------------------------------------
\* C18: a classification call that never returns stalls only its own worker:
\* with two or more workers, every item put on tsq_in other than the one the
\* stuck worker holds is eventually processed, and unless its processing
\* failed its line is eventually written by the collector (an outcome, once
\* reached, stays: out and err only grow).
C18_HangStallsOneWorker ==
    (cfg.threads >= 2 /\ Unsettled # {}) ~> (Unsettled = {})

C18_Witness ==
    /\ cfg.threads = 2
    /\ pc["w1"] = "hung" /\ rv["w1"] = << <<"png", 1>> >>
    /\ out = <<FormatResult(<<"txt", 2>>)>>
    /\ Poppers("tsq_in") = {"w1", "w2"}

\* neither queue has been used and no thread but main has been started
NothingStarted ==
    /\ \A t \in Threads \ {"main"} : pc[t] = "off" /\ call[t] = NoCall
    /\ call["main"] = NoCall
    /\ \A q \in Queues :
          /\ queue[q] = << >> /\ ~ done[q] /\ mutex[q] = NoThread /\ waiting[q] = {}
          /\ pushlog[q] = << >> /\ poplog[q] = << >> /\ closedAt[q] = -1
    /\ out = << >> /\ inbuf = cfg.lines

\* ---------------------------------------------------------------------------
\* C19: if parse_arguments or the construction of the classifier throws, the
\* failure is reported once on std::cerr and main returns EXIT_FAILURE before
\* the queues are created and before the collector, a worker or the input
\* thread is started; main returns EXIT_FAILURE in no other case.
C19_FailFastStartup ==
    /\ (~ cfg.parse_ok \/ ~ cfg.init_ok) =>
          /\ NothingStarted
          /\ pc["main"] \in {"parse", "init", "exit_failure"}
          /\ ~ cfg.parse_ok => pc["main"] # "init"
          /\ err = IF pc["main"] # "exit_failure" THEN << >>
                   ELSE IF ~ cfg.parse_ok THEN << <<"yolo-cls", "parse_arguments">> >>
                   ELSE << <<"yolo-cls", "yolo">> >>
    /\ pc["main"] = "exit_failure" => (~ cfg.parse_ok \/ ~ cfg.init_ok)

C19_Witness ==
    /\ pc["main"] = "exit_failure"
    /\ cfg.parse_ok /\ ~ cfg.init_ok
    /\ Len(err) = 1

\* ---------------------------------------------------------------------------
\* C20: with the image files on the command line main itself pushes every
\* file, unfiltered and in argument order, and then closes tsq_in; it never
\* waits on a queue while doing so; once tsq_in is closed the items popped
\* from it followed by the items still queued are exactly the argument list.
C20_DirectMode ==
    cfg.tty =>
        /\ pc["inp"] = "off"
        /\ Pushers("tsq_in") \subseteq {"main"}
        /\ IsPrefix(PushVals("tsq_in"), cfg.image_files)
        /\ call["main"].op # "pop" /\ call["main"].at # "parked"
        /\ \A q \in Queues : "main" \notin waiting[q]
        /\ (call["main"].op = "close" \/ done["tsq_in"]) =>
               PushVals("tsq_in") = cfg.image_files
        /\ done["tsq_in"] =>
               PopVals("tsq_in") \o queue["tsq_in"] = cfg.image_files

C20_Witness ==
    /\ cfg.tty /\ done["tsq_in"]
    /\ cfg.image_files = << <<"png", 1>>, <<"txt", 2>> >>
    /\ PopVals("tsq_in") = << <<"png", 1>> >>
    /\ queue["tsq_in"] = << <<"txt", 2>> >>

\* the lines std::getline has delivered so far
Consumed == SubSeq(cfg.lines, 1, Len(cfg.lines) - Len(inbuf))

\* the lines among s that thread_get_line pushes
Surviving(s) ==
    SelectSeq(s, LAMBDA p : cfg.disable_extension_check \/ is_supported_image(p[1]))

\* ---------------------------------------------------------------------------
\* C21: with standard input not a terminal, the input thread is the only
\* pusher of tsq_in and pushes exactly the lines read so far whose extension
\* is_supported_image accepts (all of them when the check is disabled), in
\* input order; a rejected line is not pushed and no message is written for
\* it; tsq_in is closed only when all lines have been read, and the thread
\* returns only after closing it.
C21_StreamingFilter ==
    ~ cfg.tty =>
        /\ Pushers("tsq_in") \subseteq {"inp"}
        /\ LET pending == IF call["inp"].op = "push" /\ call["inp"].at \in {"lock", "cs"}
                          THEN <<call["inp"].arg>> ELSE << >>
           IN PushVals("tsq_in") \o pending = Surviving(Consumed)
        /\ \A e \in Range(err) : e[2] \in Range(PushVals("tsq_in"))
        /\ (done["tsq_in"] \/ call["inp"].op = "close") =>
               (inbuf = << >> /\ PushVals("tsq_in") = Surviving(cfg.lines))
        /\ pc["inp"] = "done" => done["tsq_in"]

C21_Witness ==
    /\ ~ cfg.tty /\ ~ cfg.disable_extension_check
    /\ cfg.lines = << <<"txt", 1>>, <<"png", 2>> >>
    /\ pc["inp"] = "done"
    /\ PushVals("tsq_in") = << <<"png", 2>> >>

\* the items appended to q before its first close(), in that order
PreCloseSeq(q) ==
    SubSeq(PushVals(q), 1, IF closedAt[q] = -1 THEN Len(pushlog[q]) ELSE closedAt[q])

\* ---------------------------------------------------------------------------
\* C22: a push() made after close() does not damage the queue for the other
\* callers: done, once set, stays set, and the items appended before the
\* close are still returned by pop() in the order they were appended.
C22_LatePushKeepsInvariants ==
    /\ [] \A q \in Queues :
            /\ closedAt[q] # -1 => done[q]
            /\ IsPrefix(SelectSeq(PopVals(q), LAMBDA x : x \in Range(PreCloseSeq(q))),
                        PreCloseSeq(q))
            /\ Len(PopVals(q)) >= Len(PreCloseSeq(q)) =>
                   SubSeq(PopVals(q), 1, Len(PreCloseSeq(q))) = PreCloseSeq(q)
    /\ [][\A q \in Queues : done[q] => done'[q]]_vars

\* an item appended before the close is popped after a push that followed the close
C22_Witness ==
    /\ closedAt[TQ] = 1 /\ done[TQ]
    /\ Len(pushlog[TQ]) = 2
    /\ PopVals(TQ) = PreCloseSeq(TQ)
    /\ Len(queue[TQ]) = 1

\* the argument is digits followed by nothing or by a unit of the map, in
\* either case, with optional white space around
WellFormed ==
    /\ conv.digits # << >>
    /\ \/ conv.suffix = << >>
       \/ [i \in DOMAIN conv.suffix |-> tolower(conv.suffix[i])] \in DOMAIN multipliers

\* the number of bytes a well-formed argument denotes
Denoted ==
    DecimalValue(conv.digits) *
        (IF conv.suffix = << >> THEN 1
         ELSE multipliers[[i \in DOMAIN conv.suffix |-> tolower(conv.suffix[i])]])

\* ---------------------------------------------------------------------------
\* C23: for a well-formed argument string_unit_to_numeric returns
\* number * multiplier when that fits in uint64_t, and otherwise throws
\* std::overflow_error: no wrapped result, no other exception type.
C23_OverflowError ==
    (WellFormed /\ conv.at \in {"returned", "thrown"}) =>
        IF Denoted <= max_val
        THEN conv.at = "returned" /\ conv.result = Denoted
        ELSE conv.at = "thrown" /\ conv.thrown = "overflow_error"

\* thread t is between acquiring and releasing the mutex of q
InCriticalSection(t, q) ==
    /\ call[t].q = q
    /\ \/ call[t].op \in {"push", "close"} /\ call[t].at = "cs"
       \/ call[t].op = "pop" /\ call[t].at \in {"pred", "cs"}

\* ---------------------------------------------------------------------------
\* C24: push, pop and close exclude each other on a queue: at most one
\* thread is in the section that reads or writes queue and done, and it is
\* the holder of the mutex; queue and done change only in a step of that
\* holder; and between pop's test of "non-empty or done" and its removal of
\* the front nothing changes, so the test still holds when pop removes.
C24_MutualExclusion ==
    /\ [] \A q \in Queues :
            /\ Cardinality({t \in Threads : InCriticalSection(t, q)}) <= 1
            /\ \A t \in Threads : InCriticalSection(t, q) <=> mutex[q] = t
            /\ \A t \in Threads :
                  (call[t].q = q /\ call[t].op = "pop" /\ call[t].at = "cs") => WaitPred(q)
    /\ [][\A q \in Queues :
              (queue'[q] # queue[q] \/ done'[q] # done[q]) =>
                  /\ mutex[q] # NoThread
                  /\ call[mutex[q]].at = "cs"
                  /\ call'[mutex[q]] # call[mutex[q]]
                  /\ mutex'[q] = NoThread]_vars

\* a pop holds the mutex after its test while a push and another pop wait for it
C24_Witness ==
    \E t, u, v \in Threads :
        /\ call[t].op = "pop" /\ call[t].at = "cs" /\ call[t].q = TQ /\ queue[TQ] # << >>
        /\ call[u].op = "push" /\ call[u].at = "lock" /\ call[u].q = TQ
        /\ call[v].op = "pop" /\ call[v].at = "lock" /\ call[v].q = TQ

\* ---------------------------------------------------------------------------
\* C25: a consumer woken inside pop() -- by a push, by close, or spuriously --
\* takes the mutex again and evaluates "non-empty or done" before anything
\* else; if the queue is still empty and not closed it waits again, and
\* pop() returns neither a value nor std::nullopt in that situation.
C25_RecheckAfterWakeup ==
    /\ [][\A t \in Threads :
              /\ (At(t, "pop", "parked") /\ call'[t] # call[t]) =>
                     (/\ t \notin waiting[call[t].q]
                      /\ call'[t].at = "pred" /\ mutex'[call[t].q] = t)
              /\ (At(t, "pop", "pred") /\ call'[t] # call[t]) =>
                     IF WaitPred(call[t].q)
                     THEN call'[t].at = "cs"
                     ELSE /\ call'[t].at = "parked"
                          /\ t \in waiting'[call[t].q]
                          /\ poplog' = poplog /\ rv' = rv
       ]_vars
    /\ [] \A q \in Queues : \A i \in DOMAIN poplog[q] :
            poplog[q][i][2] = nullopt => closedAt[q] # -1

\* every running consumer waits in pop() on the empty, open queue, one of
\* them for the second time, after a spurious wakeup
C25_Witness ==
    /\ spurious = 1
    /\ queue[TQ] = << >> /\ ~ done[TQ] /\ poplog[TQ] = << >>
    /\ waiting[TQ] # {}
    /\ \A c \in Consumers : pc[c] = "off" \/ (c \in waiting[TQ] /\ At(c, "pop", "parked"))

\* ---------------------------------------------------------------------------
\* C26: in the loop over the top predictions class_names is read only at an
\* index below class_names.size(); every other class index, the size itself
\* included, gets the label "class_<index>".
C26_ClassNameInRange ==
    /\ ~ post.out_of_bounds
    /\ post.at # "crashed"
    /\ \A k \in DOMAIN post.top_predictions :
          LET class_index == post.indexed_scores[k][1] IN
            post.top_predictions[k][1] =
                IF class_index < Len(post.class_names)
                THEN post.class_names[class_index + 1]
                ELSE FallbackLabel(class_index)

\* ---------------------------------------------------------------------------
\* C27: when main returns EXIT_SUCCESS every item that was put on tsq_in has
\* exactly one outcome, a line written by the collector or a diagnostic on
\* std::cerr, and there is no other line or message: lines plus diagnostics
\* equals the number of items.
C27_OutcomeConservation ==
    pc["main"] = "exit_success" =>
        /\ \A x \in Range(PushVals("tsq_in")) :
               Count(out, FormatResult(x)) + Count(err, Diagnostic(x)) = 1
        /\ Len(out) + Len(err) = Len(pushlog["tsq_in"])

C27_Witness ==
    /\ pc["main"] = "exit_success"
    /\ Len(pushlog["tsq_in"]) = 2
    /\ Len(out) = 1 /\ Len(err) = 1
    /\ cfg.threads = 2

\* thread t has called push on q and has not appended yet
PushPending(t, q) ==
    call[t].op = "push" /\ call[t].q = q /\ call[t].at \in {"lock", "cs"}

\* thread t has called close on q
Closing(t, q) == call[t].op = "close" /\ call[t].q = q

\* ---------------------------------------------------------------------------
\* C28: in the pipeline no push() runs on a closed queue: from the call of
\* close() on no thread has a push outstanding on that queue and nothing is
\* appended after done was set; tsq_in is closed by its only pusher, after
\* its last push; tsq_out is closed by main when all its pushers have
\* returned.
C28_NoPushAfterClose ==
    \A q \in Queues :
        /\ closedAt[q] # -1 => Len(pushlog[q]) = closedAt[q]
        /\ (done[q] \/ \E t \in Threads : Closing(t, q)) =>
               \A t \in Threads : ~ PushPending(t, q)
        /\ \A t \in Threads : (Closing(t, "tsq_in") /\ q = "tsq_in") =>
               (/\ t = IF cfg.tty THEN "main" ELSE "inp"
                /\ Pushers(q) \subseteq {t}
                /\ PushVals(q) = IF cfg.tty THEN cfg.image_files ELSE Surviving(cfg.lines))
        /\ \A t \in Threads : (Closing(t, "tsq_out") /\ q = "tsq_out") =>
               (/\ t = "main"
                /\ Pushers(q) \subseteq Workers
                /\ \A w \in Workers : pc[w] \in {"off", "done"})

C28_Witness ==
    /\ done["tsq_in"] /\ done["tsq_out"]
    /\ ~ cfg.tty
    /\ Len(pushlog["tsq_in"]) = 2
    /\ Pushers("tsq_out") = {"w1", "w2"}

\* main has returned EXIT_SUCCESS with every thread finished and both queues
\* closed and empty
Terminated ==
    /\ pc["main"] = "exit_success"
    /\ \A w \in Started : pc[w] = "done"
    /\ pc["out"] = "done"
    /\ pc["inp"] = IF cfg.tty THEN "off" ELSE "done"
    /\ \A q \in Queues : done[q] /\ queue[q] = << >> /\ waiting[q] = {}

\* ---------------------------------------------------------------------------
\* C29: for every finite input (the empty one included), files on the
\* command line or lines on standard input, one or more workers, and every
\* classification call returning, the pipeline terminates: the producer,
\* the workers and the collector return, main returns, and both queues are
\* then closed and empty.
C29_PipelineTerminates ==
    (pc["main"] = "parse") ~> (SomeHung \/ Terminated)

C29_Witness ==
    /\ Terminated /\ ~ SomeHung
    /\ ~ cfg.tty /\ cfg.threads = 2
    /\ Len(out) = 1

\* the lines of the items put on tsq_in, in the order the items were put there
ResultsInInputOrder ==
    [i \in DOMAIN pushlog["tsq_in"] |-> FormatResult(PushVals("tsq_in")[i])]

\* ---------------------------------------------------------------------------
\* C30: with one worker the lines the collector writes are in the order in
\* which their items were put on tsq_in; the items whose processing failed
\* are simply missing from the sequence.
C30_SingleWorkerOrder ==
    cfg.threads = 1 =>
        out = SelectSeq(ResultsInInputOrder, LAMBDA r : r \in Range(out))

C30_Witness ==
    /\ cfg.threads = 1
    /\ pc["main"] = "exit_success"
    /\ Len(out) = 2

====
